---- MODULE Spec2Model ----
(***************************************************************************)
(* A model of the raillmy deployment orchestrator: the deploy pipeline,    *)
(* the reduced update pipeline, remove, the metadata migration, the        *)
(* metadata store and the webhook listener.                                *)
(*                                                                         *)
(* Strings are modelled as sequences of tokens.  A token is a piece of a   *)
(* string that the code never looks inside, except for the tokens the code *)
(* searches for (".git", "sha256=").  Every external command (git, npm,    *)
(* pm2, nginx, sudo) is one atomic step with a nondeterministic outcome.   *)
(* Every CLI invocation is an operating-system process of its own; the     *)
(* webhook listener spawns `update` as a child process and awaits it.      *)
(***************************************************************************)
EXTENDS Integers, Sequences, FiniteSets, TLC

(***************************************************************************)
(* Bounds of the model.                                                    *)
(***************************************************************************)
\* number of CLI invocations and webhook requests started in one behaviour
MaxOps == 3
MaxAttempts == 3
\* number of tokens of a request path
MaxPath == 4
\* number of hex characters of a digest (64 in the program)
HexLen == 2

\* `undefined` of the program: a missing optional string field
None == "none"
\* a missing project name, process name, path or URL
NoName == <<>>
\* a missing port: `undefined`; JavaScript treats it as falsy, like 0
NoPort == 0

\* project names (already sanitized): "a" and "a-backend"
Names == {<<"a">>, <<"a", "backend">>}
Branches == {"main", "dev"}
Ports == {3000}
Procs == {"cli", "hook"}

\* repository URLs: host, then path tokens
\*   <<"gh","r">>             https://github.com/u/r
\*   <<"gh","r",".git">>      https://github.com/u/r.git
\*   <<"gh","r",".git","x">>  https://github.com/u/r.gitx
\*   <<"gh","r","x">>         https://github.com/u/rx
\*   <<"ev","r">>             https://evil.example/u/r
UrlPlain == <<"gh", "r">>
UrlGit == <<"gh", "r", ".git">>
UrlMid == <<"gh", "r", ".git", "x">>
UrlOther == <<"gh", "r", "x">>
UrlBadHost == <<"ev", "r">>
GitHubUrls == {UrlPlain, UrlGit, UrlMid, UrlOther}

(***************************************************************************)
(* Sequence helpers.                                                       *)
(***************************************************************************)
Last(s) == s[Len(s)]

Front(s) == SubSeq(s, 1, Len(s) - 1)

\* the index of the first occurrence of token t in s, 0 when there is none
RECURSIVE IndexFrom(_, _, _)
IndexFrom(s, t, i) ==
    IF i > Len(s) THEN 0
    ELSE IF s[i] = t THEN i
    ELSE IndexFrom(s, t, i + 1)

IndexOf(s, t) == IndexFrom(s, t, 1)

\* s without its i-th element
RemoveAt(s, i) == SubSeq(s, 1, i - 1) \o SubSeq(s, i + 1, Len(s))

\* s1 occurs in s2 as a contiguous block
Includes(s2, s1) ==
    \E i \in 0..(Len(s2) - Len(s1)) : SubSeq(s2, i + 1, i + Len(s1)) = s1

\* s2 starts with s1
StartsWith(s2, s1) ==
    /\ Len(s1) <= Len(s2)
    /\ SubSeq(s2, 1, Len(s1)) = s1

\* the places of the elements of s in the list `order` increase strictly
RECURSIVE InOrder(_, _)
InOrder(s, order) ==
    IF Len(s) <= 1 THEN TRUE
    ELSE /\ IndexOf(order, s[1]) < IndexOf(order, s[2])
         /\ InOrder(Tail(s), order)

(***************************************************************************)
(* utils/security.ts                                                       *)
(***************************************************************************)
\* validateRepoUrl: only github.com and www.github.com hosts are allowed
validateRepoUrl(url) == Len(url) > 0 /\ url[1] = "gh"

\* validateEnvKey: the key matches /^[A-Z_][A-Z0-9_]*$/
validateEnvKey(key) ==
    LET upper == {"A", "B", "C", "D", "E", "F", "G", "H", "I", "J", "K", "L",
                  "M", "N", "O", "P", "Q", "R", "S", "T", "U", "V", "W", "X",
                  "Y", "Z"}
        digit == {"0", "1", "2", "3", "4", "5", "6", "7", "8", "9"}
    IN
    /\ Len(key) > 0
    /\ key[1] \in upper \cup {"_"}
    /\ \A i \in 2..Len(key) : key[i] \in upper \cup digit \cup {"_"}

(***************************************************************************)
(* utils/portFinder.ts                                                     *)
(***************************************************************************)
DefaultMaxAttempts == 10

\* isPortInUse: the port shows in the socket table
isPortInUse(port, listening) == port \in listening

\* a bug: when every probed port is occupied the port after the last
\* probe is returned
findPastLastProbe(startPort, maxAttempts, listening) ==
    LET probed == {startPort + i : i \in 0..(maxAttempts - 1)} IN
    IF probed \subseteq listening THEN startPort + maxAttempts
    ELSE CHOOSE port \in probed \ listening :
            \A other \in probed \ listening : port <= other

RECURSIVE findLoop(_, _, _, _, _)
findLoop(startPort, port, attempts, maxAttempts, listening) ==
    IF attempts < maxAttempts
    THEN IF ~isPortInUse(port, listening)
         THEN port
         ELSE findLoop(startPort, port + 1, attempts + 1, maxAttempts, listening)
    ELSE startPort

findAvailablePort(startPort, maxAttempts, listening) ==
    findLoop(startPort, startPort, 0, maxAttempts, listening)

(***************************************************************************)
(* analyzer/detectProjectType.ts                                           *)
(*                                                                         *)
(* A checked-out repository is described by what the analyzer reads:       *)
(*   root    a package.json at the root                                    *)
(*   deps    which framework the root manifest depends on                  *)
(*   mono    a workspaces field, a turbo/lerna dependency or an nx.json    *)
(*   build, start   the root manifest's scripts                            *)
(*   fe, be  a frontend-like / backend-like sub-package is found           *)
(*   beStart, beBuild, feBuild   the sub-packages' scripts                 *)
(***************************************************************************)
Content(root, deps, mono, build, start, fe, be, beStart) ==
    [root |-> root, deps |-> deps, mono |-> mono, build |-> build,
     start |-> start, fe |-> fe, be |-> be, beStart |-> beStart]

BackendRepo == Content(TRUE, "backend", FALSE, FALSE, TRUE, FALSE, FALSE, FALSE)
StaticRepo == Content(TRUE, "frontend", FALSE, TRUE, FALSE, FALSE, FALSE, FALSE)
SsrRepo == Content(TRUE, "ssr", FALSE, TRUE, TRUE, FALSE, FALSE, FALSE)
PlainRepo == Content(TRUE, "none", FALSE, FALSE, TRUE, FALSE, FALSE, FALSE)
SplitRepo == Content(FALSE, "none", FALSE, FALSE, FALSE, TRUE, TRUE, TRUE)
EmptyRepo == Content(FALSE, "none", FALSE, FALSE, FALSE, FALSE, FALSE, FALSE)
FrontOnlyRepo == Content(FALSE, "none", FALSE, FALSE, FALSE, TRUE, FALSE, FALSE)
WorkspacesRepo == Content(TRUE, "backend", TRUE, TRUE, TRUE, TRUE, FALSE, FALSE)

Contents ==
    {BackendRepo, StaticRepo, SsrRepo, PlainRepo, SplitRepo, EmptyRepo,
     FrontOnlyRepo, WorkspacesRepo}

\* the sub-package at backendPath, as the analyzer reads it
BackendSub(c) ==
    Content(TRUE, "backend", FALSE, FALSE, c.beStart, FALSE, FALSE, FALSE)

\* the sub-package at frontendPath
FrontendSub(c) ==
    Content(TRUE, "frontend", FALSE, TRUE, FALSE, FALSE, FALSE, FALSE)

Analysis(type, build, start, fe, be, ssr) ==
    [throws |-> FALSE, type |-> type, hasBuildScript |-> build,
     hasStartScript |-> start, frontendPath |-> fe, backendPath |-> be,
     isSSR |-> ssr]

AnalysisThrows ==
    [throws |-> TRUE, type |-> "unknown", hasBuildScript |-> FALSE,
     hasStartScript |-> FALSE, frontendPath |-> None, backendPath |-> None,
     isSSR |-> FALSE]

isMonorepo(c) == c.mono

analyzeMonorepo(c) ==
    [frontendPath |-> IF c.fe THEN "frontend" ELSE None,
     backendPath |-> IF c.be THEN "backend" ELSE None]

detectFrontendType(c) == [isSSR |-> c.deps = "ssr"]

detectProjectType(c, userSpecifiedType) ==
    LET sub == analyzeMonorepo(c) IN
    IF ~c.root
    THEN IF sub.frontendPath # None \/ sub.backendPath # None
         THEN Analysis("monorepo", FALSE, FALSE, sub.frontendPath,
                       sub.backendPath, FALSE)
         ELSE AnalysisThrows
    ELSE IF userSpecifiedType # "unknown"
    THEN LET mono == userSpecifiedType = "monorepo" \/ isMonorepo(c) IN
         Analysis(IF mono THEN "monorepo" ELSE userSpecifiedType,
                  c.build, c.start,
                  IF mono THEN sub.frontendPath ELSE None,
                  IF mono THEN sub.backendPath ELSE None,
                  IF userSpecifiedType = "frontend"
                  THEN detectFrontendType(c).isSSR ELSE FALSE)
    ELSE IF isMonorepo(c)
    THEN Analysis("monorepo", c.build, c.start, sub.frontendPath,
                  sub.backendPath, FALSE)
    ELSE IF c.deps = "backend"
    THEN Analysis("backend", c.build, c.start, None, None, FALSE)
    ELSE IF c.deps \in {"frontend", "ssr"}
    THEN Analysis("frontend", c.build, c.start, None, None,
                  detectFrontendType(c).isSSR)
    ELSE Analysis("unknown", c.build, c.start, None, None, FALSE)

(***************************************************************************)
(* The state.                                                              *)
(*   ws      the workspace directory /var/apps/<name> of every name        *)
(*   meta    the record file /var/apps/<name>/metadata.json                *)
(*   pm2     the supervisor's entries, <<process name, PORT>>              *)
(*   nginx   the installed proxy config units /etc/nginx/conf.d/<name>.conf*)
(*   tmpConf the temporary files /tmp/<name>.nginx.conf left behind        *)
(*   now     the clock                                                     *)
(*   ops     the number of invocations and requests started                *)
(*   loc     the position and the local variables of every process         *)
(***************************************************************************)
VARIABLES ws, meta, pm2, nginx, tmpConf, now, ops, loc

vars == <<ws, meta, pm2, nginx, tmpConf, now, ops, loc>>

NoDir ==
    [exists |-> FALSE, git |-> FALSE, repo |-> NoName, branch |-> None,
     content |-> EmptyRepo, installed |-> FALSE, built |-> FALSE,
     envPort |-> NoPort, envKeys |-> {}]

\* loadMetadata returns null
NoRecord ==
    [absent |-> TRUE, name |-> NoName, repoUrl |-> NoName, branch |-> None,
     type |-> "unknown", port |-> NoPort, createdAt |-> 0, updatedAt |-> 0,
     pm2ProcessName |-> NoName, nginxConfigPath |-> NoName,
     webhookEnabled |-> FALSE]

NoAnalysis == AnalysisThrows

NoRequest ==
    [method |-> None, secret |-> 0, signature |-> <<>>, event |-> None,
     json |-> FALSE, cloneUrl |-> NoName, htmlUrl |-> NoName, ref |-> None]

\* no request was routed
NoRoute == [kind |-> "none", port |-> NoPort, path |-> NoName]

\* deploy has not returned; a DeployResult holds success, error, port,
\* pm2ProcessName and nginxConfigPath
NoResult ==
    [success |-> FALSE, error |-> FALSE, port |-> NoPort,
     pm2ProcessName |-> NoName, nginxConfigPath |-> NoName]

\* --env is not given: envVars is undefined
NoEnv == [given |-> FALSE, vars |-> {}]

Idle ==
    [pc |-> "idle", op |-> "none", name |-> NoName, repoUrl |-> NoName,
     branch |-> None, userType |-> "unknown", port |-> NoPort,
     envVars |-> NoEnv, maxAttempts |-> 0,
     given |-> None, child |-> FALSE, fetched |-> None,
     finalPort |-> NoPort, projectPath |-> FALSE, analysis |-> NoAnalysis,
     content |-> EmptyRepo, md |-> NoRecord, pm2ProcessName |-> NoName,
     nginxConfigPath |-> NoName, trace |-> <<>>, failed |-> "none",
     warns |-> {}, result |-> "none", req |-> NoRequest, status |-> 0,
     basePath |-> NoName, uri |-> NoName, routed |-> NoRoute,
     returned |-> NoResult, webhook |-> FALSE]

registered(entries, processName) == \E e \in entries : e[1] = processName

\* the ports the supervised processes listen on
Listening == {e[2] : e \in pm2} \ {NoPort}

Free(p) == loc[p].pc \in {"idle", "done"}

(***************************************************************************)
(* utils/metadata.ts                                                       *)
(***************************************************************************)
loadMetadata(store, projectName) == store[projectName]

\* saveMetadata: ensureDir, then the record file is overwritten in full
saveMetadata(store, record) == [store EXCEPT ![record.name] = record]

\* the directory that saveMetadata's ensureDir creates when it is missing
ensureDir(dirs, projectName) ==
    [dirs EXCEPT ![projectName] = [@ EXCEPT !.exists = TRUE]]

\* a bug: the record file is left in place
keepMetadata(store, projectName) == store

deleteMetadata(store, projectName) == [store EXCEPT ![projectName] = NoRecord]

\* a bug: no existence check before the merge
updateMetadataUnchecked(store, projectName) == FALSE

\* updateMetadata: fails when there is no record, else merges the updates
\* and stamps updatedAt with the clock
updateMetadataThrows(store, projectName) ==
    loadMetadata(store, projectName).absent

\* { ...existing, ...updates, updatedAt: new Date() }
updateMetadata(store, projectName, updates, clock) ==
    LET existing == loadMetadata(store, projectName)
        merged == [field \in DOMAIN existing |->
                     IF field \in DOMAIN updates THEN updates[field]
                     ELSE existing[field]]
    IN
    saveMetadata(store, [merged EXCEPT !.absent = FALSE,
                                       !.updatedAt = clock])

\* listAllProjects: the records of the directories under /var/apps
listAllProjects(store) == {store[n] : n \in {m \in Names : ~store[m].absent}}

(***************************************************************************)
(* github/cloneRepo.ts                                                     *)
(* The outcome of the git commands is "ok", "fail" (nothing changed) or    *)
(* "fail_pull" (the checkout succeeded, the pull failed); c is what the    *)
(* remote branch holds.                                                    *)
(***************************************************************************)
GitOutcomes == {"ok", "fail", "fail_pull"}

\* a bug: git checkout finds every branch of the remote
checkoutFindsAny(dir, branch) == FALSE

\* the workspace is a clone made with --branch <b> --depth 1, which holds
\* the one branch b: git checkout of any other branch finds no such branch
checkoutFails(dir, branch) == branch # dir.branch

updateRepoThrows(dir, branch, out) ==
    ~dir.git \/ checkoutFails(dir, branch) \/ out # "ok"

updateRepo(dir, branch, out, c) ==
    IF ~dir.git \/ checkoutFails(dir, branch) \/ out = "fail" THEN dir
    ELSE IF out = "fail_pull" THEN [dir EXCEPT !.branch = branch]
    ELSE [dir EXCEPT !.branch = branch, !.content = c]

cloneRepoThrows(dir, repoUrl, branch, out) ==
    IF ~validateRepoUrl(repoUrl) THEN TRUE
    ELSE IF dir.exists THEN updateRepoThrows(dir, branch, out)
    ELSE out # "ok"

cloneRepo(dir, repoUrl, branch, out, c) ==
    IF ~validateRepoUrl(repoUrl) THEN dir
    ELSE IF dir.exists THEN updateRepo(dir, branch, out, c)
    ELSE IF out = "ok"
    THEN [NoDir EXCEPT !.exists = TRUE, !.git = TRUE, !.repo = repoUrl,
                       !.branch = branch, !.content = c]
    ELSE dir

(***************************************************************************)
(* runner/runWithPM2.ts                                                    *)
(* The outcome of the pm2 commands is "ok", "start_fail" (pm2 start fails  *)
(* after pm2 delete ran) or "show_fail" (pm2 show fails after the start).  *)
(***************************************************************************)
PM2Outcomes == {"ok", "start_fail", "show_fail"}

processNameOf(projectName, subPath) ==
    projectName \o (IF subPath # None THEN <<subPath>> ELSE <<>>)

runWithPM2Throws(analysis, out) == ~analysis.hasStartScript \/ out # "ok"

\* the key PORT of an environment
PORT == <<"P", "O", "R", "T">>

\* generateEcosystemConfig: envObj.PORT is the port, then every explicit
\* variable is copied over it
ecosystemPort(port, envVars) ==
    IF \E pair \in envVars.vars : pair[1] = PORT
    THEN (CHOOSE pair \in envVars.vars : pair[1] = PORT)[2]
    ELSE port

\* pm2 delete <processName> (a failure is ignored), then pm2 start
runWithPM2(entries, analysis, processName, port, envVars, out) ==
    LET deleted == {e \in entries : e[1] # processName} IN
    IF ~analysis.hasStartScript THEN entries
    ELSE IF out = "start_fail" THEN deleted
    ELSE deleted \cup {<<processName, ecosystemPort(port, envVars)>>}

\* the .env file written into the working directory before pm2 is called
writeEnvFile(dir, analysis, port, envVars) ==
    IF analysis.hasStartScript /\ (envVars.given \/ port # NoPort)
    THEN [dir EXCEPT !.envPort = IF port # NoPort THEN port
                                 ELSE ecosystemPort(NoPort, envVars),
                     !.envKeys = {pair[1] : pair \in envVars.vars}]
    ELSE dir

(***************************************************************************)
(* the nginx generator                                                     *)
(* The outcome of the commands is "ok", "cp_fail" (sudo cp fails) or       *)
(* "test_fail" (nginx -t fails after the config was installed).            *)
(***************************************************************************)
NginxOutcomes == {"ok", "cp_fail", "test_fail"}

configShape(projectType, analysis) ==
    IF projectType = "frontend" /\ ~analysis.isSSR THEN "static"
    ELSE IF projectType = "backend" \/ analysis.isSSR THEN "proxy"
    ELSE IF projectType = "monorepo" THEN "combined"
    ELSE "unsupported"

\* a bug: the port is not looked at before the file is written
generateRejectsNoPortCheck(projectType, analysis, port) ==
    configShape(projectType, analysis) = "unsupported"

\* the errors thrown before anything is written
generateRejects(projectType, analysis, port) ==
    LET shape == configShape(projectType, analysis) IN
    \/ shape = "unsupported"
    \/ shape \in {"proxy", "combined"} /\ port = NoPort

generateNginxConfigThrows(projectType, analysis, port, out) ==
    generateRejects(projectType, analysis, port) \/ out = "cp_fail"

\* the installed config units after the call
generateNginxConfig(units, projectName, projectType, analysis, port, out) ==
    IF generateNginxConfigThrows(projectType, analysis, port, out) THEN units
    ELSE {u \in units : u.name # projectName}
         \cup {[name |-> projectName,
                shape |-> configShape(projectType, analysis),
                port |-> port]}

\* the temporary files after the call
generateTemp(temps, projectName, projectType, analysis, port, out) ==
    IF generateRejects(projectType, analysis, port) THEN temps
    ELSE IF out = "cp_fail" THEN temps \cup {projectName}
    ELSE temps \ {projectName}

(***************************************************************************)
(* index.ts: deploy                                                        *)
(***************************************************************************)
StageOrder ==
    <<"port", "fetch", "analyze", "install", "build", "supervisor", "proxy",
      "reload", "persist">>

DeployPcOf(stage) ==
    CASE stage = "port" -> "d_port"
      [] stage = "fetch" -> "d_fetch"
      [] stage = "analyze" -> "d_analyze"
      [] stage = "install" -> "d_install"
      [] stage = "build" -> "d_build"
      [] stage = "supervisor" -> "d_run"
      [] stage = "proxy" -> "d_nginx"
      [] stage = "reload" -> "d_reload"
      [] stage = "persist" -> "d_save"
      [] OTHER -> "done"

\* the stage that follows `stage` in the body of deploy
StageAfter(stage) ==
    IF IndexOf(StageOrder, stage) < Len(StageOrder)
    THEN StageOrder[IndexOf(StageOrder, stage) + 1]
    ELSE "end"

begin(l, stage) == [l EXCEPT !.trace = Append(@, stage)]

\* a stage returned: the next statement of the try block runs
proceed(l, stage) == [l EXCEPT !.pc = DeployPcOf(StageAfter(stage))]

\* a bug: the error of a stage is logged and the pipeline goes on
deployCatchGoesOn(l, stage) ==
    [l EXCEPT !.pc = DeployPcOf(StageAfter(stage)), !.failed = stage]

\* a bug: the failure result carries the port the deploy had resolved
deployCatchReturnsPort(l, stage) ==
    [l EXCEPT !.pc = "done", !.failed = stage, !.result = "failure",
              !.returned = [NoResult EXCEPT !.error = TRUE,
                                            !.port = l.finalPort]]

\* the catch block of deploy: the result is a failure with the error's
\* message, nothing is undone
deployCatch(l, stage) ==
    [l EXCEPT !.pc = "done", !.failed = stage, !.result = "failure",
              !.returned = [NoResult EXCEPT !.error = TRUE]]

\* the configurations the deploy command can be given
DeployConfig(name, repoUrl, branch, projectType, port) ==
    [name |-> name, repoUrl |-> repoUrl, branch |-> branch,
     projectType |-> projectType, port |-> port, envVars |-> NoEnv,
     webhookEnabled |-> FALSE]

Step(p, l) == loc' = [loc EXCEPT ![p] = l]

CliDeploy(p, configs) ==
    /\ Free(p)
    /\ ops < MaxOps
    /\ \E config \in configs :
         Step(p, [Idle EXCEPT !.pc = "d_port", !.op = "deploy",
                              !.name = config.name,
                              !.repoUrl = config.repoUrl,
                              !.branch = config.branch,
                              !.userType = config.projectType,
                              !.port = config.port,
                              !.envVars = config.envVars,
                              !.webhook = config.webhookEnabled])
    /\ ops' = ops + 1
    /\ UNCHANGED <<ws, meta, pm2, nginx, tmpConf, now>>

DeployPort(p) ==
    LET l == loc[p] IN
    /\ l.pc = "d_port"
    /\ IF l.port # NoPort
       THEN Step(p, proceed(
                [begin(l, "port") EXCEPT !.finalPort =
                    findAvailablePort(l.port, DefaultMaxAttempts, Listening)],
                "port"))
       ELSE Step(p, proceed(l, "port"))
    /\ UNCHANGED <<ws, meta, pm2, nginx, tmpConf, now, ops>>

DeployFetch(p, contents) ==
    LET l == begin(loc[p], "fetch") IN
    /\ loc[p].pc = "d_fetch"
    /\ \E out \in GitOutcomes, c \in contents :
         /\ ws' = [ws EXCEPT
                     ![l.name] = cloneRepo(@, l.repoUrl, l.branch, out, c)]
         /\ IF cloneRepoThrows(ws[l.name], l.repoUrl, l.branch, out)
            THEN Step(p, deployCatch(l, "fetch"))
            ELSE Step(p, proceed([l EXCEPT !.projectPath = TRUE], "fetch"))
    /\ UNCHANGED <<meta, pm2, nginx, tmpConf, now, ops>>

DeployAnalyze(p) ==
    LET l == begin(loc[p], "analyze")
        c == ws[l.name].content
        analysis == detectProjectType(c, l.userType)
    IN
    /\ loc[p].pc = "d_analyze"
    /\ IF analysis.throws \/ analysis.type = "unknown"
       THEN Step(p, deployCatch(l, "analyze"))
       ELSE Step(p, proceed([l EXCEPT !.analysis = analysis,
                                      !.content = c], "analyze"))
    /\ UNCHANGED <<ws, meta, pm2, nginx, tmpConf, now, ops>>

\* a bug: the failure of a stage removes the workspace
removeWorkspaceOnFailure(dir) == NoDir

\* installDependencies and buildProject create the build log, and with it
\* the project directory, before they call the package manager
ensureFile(dir) == [dir EXCEPT !.exists = TRUE]

\* install runs per sub-package for a monorepo, once otherwise
installs(analysis) ==
    IF analysis.type = "monorepo"
    THEN analysis.frontendPath # None \/ analysis.backendPath # None
    ELSE TRUE

DeployInstall(p) ==
    LET l == loc[p] IN
    /\ l.pc = "d_install"
    /\ IF ~installs(l.analysis)
       THEN /\ Step(p, proceed(l, "install"))
            /\ ws' = ws
       ELSE \E ok \in BOOLEAN :
              IF ok /\ ws[l.name].exists
              THEN /\ ws' = [ws EXCEPT ![l.name].installed = TRUE]
                   /\ Step(p, proceed(begin(l, "install"), "install"))
              ELSE /\ ws' = [ws EXCEPT ![l.name] = ensureFile(@)]
                   /\ Step(p, deployCatch(begin(l, "install"), "install"))
    /\ UNCHANGED <<meta, pm2, nginx, tmpConf, now, ops>>

\* buildProject returns at once when the analysis has no build script
builds(analysis, c) ==
    IF analysis.type = "monorepo"
    THEN \/ /\ analysis.frontendPath # None
            /\ detectProjectType(FrontendSub(c), "frontend").hasBuildScript
         \/ /\ analysis.backendPath # None
            /\ detectProjectType(BackendSub(c), "backend").hasBuildScript
    ELSE analysis.hasBuildScript

DeployBuild(p) ==
    LET l == loc[p] IN
    /\ l.pc = "d_build"
    /\ IF ~builds(l.analysis, l.content)
       THEN /\ Step(p, proceed(begin(l, "build"), "build"))
            /\ ws' = ws
       ELSE \E ok \in BOOLEAN :
              IF ok /\ ws[l.name].exists
              THEN /\ ws' = [ws EXCEPT ![l.name].built = TRUE]
                   /\ Step(p, proceed(begin(l, "build"), "build"))
              ELSE /\ ws' = [ws EXCEPT ![l.name] = ensureFile(@)]
                   /\ Step(p, deployCatch(begin(l, "build"), "build"))
    /\ UNCHANGED <<meta, pm2, nginx, tmpConf, now, ops>>

\* a statically served frontend needs no supervisor entry
skipsSupervisor(analysis) == analysis.type = "frontend" /\ ~analysis.isSSR

\* the analysis and the sub-path runWithPM2 is called with
runAnalysis(analysis, c) ==
    IF analysis.type = "monorepo" /\ analysis.backendPath # None
    THEN detectProjectType(BackendSub(c), "backend")
    ELSE analysis

runSubPath(analysis) ==
    IF analysis.type = "monorepo" /\ analysis.backendPath # None
    THEN analysis.backendPath
    ELSE None

DeployRun(p) ==
    LET l == loc[p]
        an == runAnalysis(l.analysis, l.content)
        processName == processNameOf(l.name, runSubPath(l.analysis))
    IN
    /\ l.pc = "d_run"
    /\ IF skipsSupervisor(l.analysis)
       THEN /\ Step(p, proceed(l, "supervisor"))
            /\ UNCHANGED <<ws, pm2>>
       ELSE \E out \in PM2Outcomes :
              /\ pm2' = runWithPM2(pm2, an, processName, l.finalPort,
                                   l.envVars, out)
              /\ ws' = [ws EXCEPT
                          ![l.name] = writeEnvFile(@, an, l.finalPort,
                                                   l.envVars)]
              /\ IF runWithPM2Throws(an, out)
                 THEN Step(p, deployCatch(begin(l, "supervisor"),
                                          "supervisor"))
                 ELSE Step(p, proceed(
                        [begin(l, "supervisor") EXCEPT
                            !.pm2ProcessName = processName], "supervisor"))
    /\ UNCHANGED <<meta, nginx, tmpConf, now, ops>>

DeployNginx(p) ==
    LET l == begin(loc[p], "proxy") IN
    /\ loc[p].pc = "d_nginx"
    /\ \E out \in NginxOutcomes :
         /\ nginx' = generateNginxConfig(nginx, l.name, l.analysis.type,
                                         l.analysis, l.finalPort, out)
         /\ tmpConf' = generateTemp(tmpConf, l.name, l.analysis.type,
                                    l.analysis, l.finalPort, out)
         /\ IF generateNginxConfigThrows(l.analysis.type, l.analysis,
                                         l.finalPort, out)
            THEN Step(p, deployCatch(l, "proxy"))
            ELSE Step(p, proceed(
                   [l EXCEPT !.nginxConfigPath = l.name,
                             !.warns = IF out = "test_fail"
                                       THEN @ \cup {"validate"} ELSE @],
                   "proxy"))
    /\ UNCHANGED <<ws, meta, pm2, now, ops>>

\* a bug: a failed reload is thrown to the catch block of deploy
reloadNginxThrows(l, ok) ==
    IF ok THEN l ELSE deployCatch([l EXCEPT !.warns = @ \cup {"reload"}],
                                  "reload")

\* reloadNginx never throws: a failed reload is logged as a warning
reloadNginx(l, ok) ==
    IF ok THEN l ELSE [l EXCEPT !.warns = @ \cup {"reload"}]

DeployReload(p) ==
    /\ loc[p].pc = "d_reload"
    /\ \E ok \in BOOLEAN :
         Step(p, proceed(reloadNginx(begin(loc[p], "reload"), ok), "reload"))
    /\ UNCHANGED <<ws, meta, pm2, nginx, tmpConf, now, ops>>

\* the record deploy writes
deployRecord(l, clock) ==
    [absent |-> FALSE, name |-> l.name, repoUrl |-> l.repoUrl,
     branch |-> l.branch, type |-> l.analysis.type, port |-> l.finalPort,
     createdAt |-> clock, updatedAt |-> clock,
     pm2ProcessName |-> l.pm2ProcessName,
     nginxConfigPath |-> l.nginxConfigPath, webhookEnabled |-> l.webhook]

DeploySave(p) ==
    LET l == begin(loc[p], "persist") IN
    /\ loc[p].pc = "d_save"
    /\ meta' = saveMetadata(meta, deployRecord(l, now))
    /\ ws' = ensureDir(ws, l.name)
    /\ now' = now + 1
    /\ Step(p, [l EXCEPT !.pc = "done", !.result = "success",
                         !.returned =
                            [success |-> TRUE, error |-> FALSE,
                             port |-> l.finalPort,
                             pm2ProcessName |-> l.pm2ProcessName,
                             nginxConfigPath |-> l.nginxConfigPath]])
    /\ UNCHANGED <<pm2, nginx, tmpConf, ops>>

(***************************************************************************)
(* index.ts: the update command                                            *)
(***************************************************************************)
\* commander's default for --branch
optionBranch(given) == IF given = None THEN "main" ELSE given

\* options.branch || metadata.branch
updateBranch(branch, md) == IF branch # None THEN branch ELSE md.branch

\* a bug: the exit of the child is not reported to the listener
exitUnseen(l) == "done"

\* where a finished update goes: the listener awaits its child
exitPc(l) == IF l.child THEN "h_respond" ELSE "done"

UpdatePcAfter(stage) ==
    CASE stage = "load" -> "u_fetch"
      [] stage = "fetch" -> "u_restart"
      [] stage = "restart" -> "u_save"
      [] OTHER -> "u_exit"

\* a bug: the error of a step is logged and the update goes on
updateCatchGoesOn(l, stage) ==
    [l EXCEPT !.pc = UpdatePcAfter(stage), !.failed = stage]

\* the catch block of the update command: exit code 1
updateCatch(l, stage) ==
    [l EXCEPT !.pc = exitPc(l), !.failed = stage, !.result = "failure"]

CliUpdate(p, branches) ==
    /\ Free(p)
    /\ ops < MaxOps
    /\ \E n \in Names, given \in branches \cup {None} :
         Step(p, [Idle EXCEPT !.pc = "u_load", !.op = "update", !.name = n,
                              !.given = given,
                              !.branch = optionBranch(given)])
    /\ ops' = ops + 1
    /\ UNCHANGED <<ws, meta, pm2, nginx, tmpConf, now>>

UpdateLoad(p) ==
    LET l == loc[p]
        md == loadMetadata(meta, l.name)
    IN
    /\ l.pc = "u_load"
    /\ IF md.absent
       THEN Step(p, [l EXCEPT !.pc = exitPc(l), !.failed = "load",
                              !.result = "failure"])
       ELSE Step(p, [l EXCEPT !.pc = "u_fetch", !.md = md])
    /\ UNCHANGED <<ws, meta, pm2, nginx, tmpConf, now, ops>>

UpdateFetch(p, contents) ==
    LET l == begin(loc[p], "fetch")
        branch == updateBranch(l.branch, l.md)
    IN
    /\ loc[p].pc = "u_fetch"
    /\ \E out \in GitOutcomes, c \in contents :
         /\ ws' = [ws EXCEPT
                     ![l.name] = cloneRepo(@, l.md.repoUrl, branch, out, c)]
         /\ IF cloneRepoThrows(ws[l.name], l.md.repoUrl, branch, out)
            THEN Step(p, updateCatch([l EXCEPT !.fetched = branch], "fetch"))
            ELSE Step(p, [l EXCEPT !.pc = "u_restart", !.fetched = branch])
    /\ UNCHANGED <<meta, pm2, nginx, tmpConf, now, ops>>

\* pm2 restart fails for a name that is not registered
UpdateRestart(p) ==
    LET l == loc[p] IN
    /\ l.pc = "u_restart"
    /\ IF l.md.pm2ProcessName = NoName
       THEN Step(p, [l EXCEPT !.pc = "u_save"])
       ELSE \E ok \in BOOLEAN :
              IF ok /\ registered(pm2, l.md.pm2ProcessName)
              THEN Step(p, [begin(l, "restart") EXCEPT !.pc = "u_save"])
              ELSE Step(p, updateCatch(begin(l, "restart"), "restart"))
    /\ UNCHANGED <<ws, meta, pm2, nginx, tmpConf, now, ops>>

UpdateSave(p) ==
    LET l == begin(loc[p], "persist")
        branch == updateBranch(l.branch, l.md)
    IN
    /\ loc[p].pc = "u_save"
    /\ IF updateMetadataThrows(meta, l.name)
       THEN /\ Step(p, updateCatch(l, "persist"))
            /\ UNCHANGED <<meta, ws, now>>
       ELSE /\ meta' = updateMetadata(meta, l.name,
                                      [branch |-> branch, updatedAt |-> now],
                                      now)
            /\ ws' = ensureDir(ws, l.name)
            /\ now' = now + 1
            /\ Step(p, [l EXCEPT !.pc = exitPc(l), !.result = "success"])
    /\ UNCHANGED <<pm2, nginx, tmpConf, ops>>

(***************************************************************************)
(* index.ts: the remove command                                            *)
(***************************************************************************)
\* a step of remove failed: the inner catch logs a warning and goes on
removeWarn(l, what) == [l EXCEPT !.warns = @ \cup {what}]

\* fs.remove(projectPath): the directory goes, with everything in it
removeDir(dirs, projectName) == [dirs EXCEPT ![projectName] = NoDir]

\* the record file lives in the project directory (getMetadataPath)
removeDirRecord(store, projectName) == deleteMetadata(store, projectName)

CliRemove(p) ==
    /\ Free(p)
    /\ ops < MaxOps
    /\ \E n \in Names, confirmed \in BOOLEAN :
         LET md == loadMetadata(meta, n)
             l == [Idle EXCEPT !.op = "remove", !.name = n, !.md = md]
         IN
         IF md.absent
         THEN Step(p, [l EXCEPT !.pc = "done", !.failed = "load",
                                !.result = "failure"])
         ELSE IF ~confirmed
         THEN Step(p, [l EXCEPT !.pc = "done", !.result = "cancelled"])
         ELSE Step(p, [l EXCEPT !.pc = "r_pm2"])
    /\ ops' = ops + 1
    /\ UNCHANGED <<ws, meta, pm2, nginx, tmpConf, now>>

\* pm2 delete fails for a name that is not registered
RemovePm2(p) ==
    LET l == loc[p] IN
    /\ l.pc = "r_pm2"
    /\ IF l.md.pm2ProcessName = NoName
       THEN /\ Step(p, [l EXCEPT !.pc = "r_nginx"])
            /\ pm2' = pm2
       ELSE \E ok \in BOOLEAN :
              IF ok /\ registered(pm2, l.md.pm2ProcessName)
              THEN /\ pm2' = {e \in pm2 : e[1] # l.md.pm2ProcessName}
                   /\ Step(p, [begin(l, "pm2") EXCEPT !.pc = "r_nginx"])
              ELSE /\ pm2' = pm2
                   /\ Step(p, [removeWarn(begin(l, "pm2"), "pm2")
                                  EXCEPT !.pc = "r_nginx"])
    /\ UNCHANGED <<ws, meta, nginx, tmpConf, now, ops>>

\* sudo rm -f <config>, then a reload; "reload_fail" leaves the file removed
RemoveNginx(p) ==
    LET l == loc[p] IN
    /\ l.pc = "r_nginx"
    /\ IF l.md.nginxConfigPath = NoName
       THEN /\ Step(p, [l EXCEPT !.pc = "r_ws"])
            /\ nginx' = nginx
       ELSE \E out \in {"ok", "rm_fail", "reload_fail"} :
              /\ nginx' = IF out = "rm_fail" THEN nginx
                          ELSE {u \in nginx : u.name # l.md.nginxConfigPath}
              /\ IF out = "ok"
                 THEN Step(p, [begin(l, "nginx") EXCEPT !.pc = "r_ws"])
                 ELSE Step(p, [removeWarn(begin(l, "nginx"), "nginx")
                                  EXCEPT !.pc = "r_ws"])
    /\ UNCHANGED <<ws, meta, pm2, tmpConf, now, ops>>

RemoveWorkspace(p) ==
    LET l == begin(loc[p], "workspace") IN
    /\ loc[p].pc = "r_ws"
    /\ \E ok \in BOOLEAN :
         IF ok
         THEN /\ ws' = removeDir(ws, l.name)
              /\ meta' = removeDirRecord(meta, l.name)
              /\ Step(p, [l EXCEPT !.pc = "r_meta"])
         ELSE /\ UNCHANGED <<ws, meta>>
              /\ Step(p, [removeWarn(l, "workspace") EXCEPT !.pc = "r_meta"])
    /\ UNCHANGED <<pm2, nginx, tmpConf, now, ops>>

RemoveMetadata(p) ==
    LET l == begin(loc[p], "metadata") IN
    /\ loc[p].pc = "r_meta"
    /\ meta' = deleteMetadata(meta, l.name)
    /\ Step(p, [l EXCEPT !.pc = "done", !.result = "success"])
    /\ UNCHANGED <<ws, pm2, nginx, tmpConf, now, ops>>

(***************************************************************************)
(* utils/migrateMetadata.ts: list --migrate                                *)
(***************************************************************************)
NoEntry == <<NoName, NoPort>>

\* the pm2 entries whose name includes or starts with the directory's name
pm2Matches(entries, entry) ==
    {e \in entries : Includes(e[1], entry) \/ StartsWith(e[1], entry)}

\* the port read from the proxy_pass line of /etc/nginx/conf.d/<entry>.conf
nginxPort(units, entry) ==
    IF \E u \in units : u.name = entry /\ u.port # NoPort
    THEN (CHOOSE u \in units : u.name = entry /\ u.port # NoPort).port
    ELSE NoPort

\* the record built for a directory without a record file; found is the
\* pm2 entry picked by jlist's find, or NoEntry
migrateRecord(entry, dir, found, units, clock) ==
    LET nginxConfigPath ==
            IF \E u \in units : u.name = entry THEN entry ELSE NoName
        port == IF found[2] # NoPort THEN found[2]
                ELSE IF dir.envPort # NoPort THEN dir.envPort
                ELSE IF nginxConfigPath # NoName
                THEN nginxPort(units, entry)
                ELSE NoPort
    IN
    [absent |-> FALSE, name |-> entry,
     repoUrl |-> IF dir.git THEN dir.repo ELSE <<"unknown">> \o entry,
     branch |-> IF dir.git THEN dir.branch ELSE "main",
     type |-> IF dir.content.root THEN "backend"
              ELSE IF dir.content.be THEN "monorepo" ELSE "unknown",
     port |-> port, createdAt |-> clock, updatedAt |-> clock,
     pm2ProcessName |-> found[1], nginxConfigPath |-> nginxConfigPath,
     webhookEnabled |-> FALSE]

\* a record is written only if (repoUrl || pm2ProcessName)
migrates(dirs, store, entry, found) ==
    /\ dirs[entry].exists
    /\ store[entry].absent
    /\ dirs[entry].git \/ found[1] # NoName

migrateExistingProjects(dirs, store, pick, units, clock) ==
    [n \in Names |->
        IF migrates(dirs, store, n, pick[n])
        THEN migrateRecord(n, dirs[n], pick[n], units, clock)
        ELSE store[n]]

CliMigrate(p) ==
    /\ Free(p)
    /\ ops < MaxOps
    /\ \E pick \in [Names -> pm2 \cup {NoEntry}] :
         /\ \A n \in Names :
              IF pm2Matches(pm2, n) = {} THEN pick[n] = NoEntry
              ELSE pick[n] \in pm2Matches(pm2, n)
         /\ meta' = migrateExistingProjects(ws, meta, pick, nginx, now)
         /\ Step(p, [Idle EXCEPT !.pc = "done", !.op = "migrate",
                       !.result = "success",
                       !.trace = IF meta' # meta THEN <<"persist">>
                                 ELSE <<>>])
    /\ now' = now + 1
    /\ ops' = ops + 1
    /\ UNCHANGED <<ws, pm2, nginx, tmpConf>>

(***************************************************************************)
(* webhook/webhookServer.ts                                                *)
(* A request carries its method ("GET" stands for every method and path    *)
(* other than POST /webhook), the listener's secret (0: none configured),  *)
(* the X-Hub-Signature-256 header as a sequence of tokens ("sha256=" and   *)
(* hex digits), the X-GitHub-Event header and the body: whether it is      *)
(* JSON, repository.clone_url, repository.html_url and ref.                *)
(***************************************************************************)
Request(method, secret, signature, event, json, cloneUrl, htmlUrl, ref) ==
    [method |-> method, secret |-> secret, signature |-> signature,
     event |-> event, json |-> json, cloneUrl |-> cloneUrl,
     htmlUrl |-> htmlUrl, ref |-> ref]

HexDigit(k) == IF k % 2 = 0 THEN "0" ELSE "1"

\* the bytes of the body, as a number
bodyCode(req) ==
    Len(req.cloneUrl) + 2 * Len(req.htmlUrl) + (IF req.json THEN 1 ELSE 0)
        + (IF req.ref = "dev" THEN 1 ELSE 0)

\* hmac.update(body).digest('hex'), HexLen digits wide
hmacHex(req, secret) ==
    [i \in 1..HexLen |-> HexDigit(bodyCode(req) + secret * i)]

digestOf(req, secret) == <<"sha256=">> \o hmacHex(req, secret)

\* Buffer.from(s).length
RECURSIVE byteLength(_)
byteLength(s) ==
    IF s = <<>> THEN 0
    ELSE (IF s[1] = "sha256=" THEN 7 ELSE 1) + byteLength(Tail(s))

\* crypto.timingSafeEqual throws on buffers of different lengths
verifySignature(req, signature, secret) ==
    IF byteLength(signature) # byteLength(digestOf(req, secret))
    THEN "throws"
    ELSE IF signature = digestOf(req, secret) THEN "true" ELSE "false"

\* String.prototype.replace('.git', ''): the first occurrence only
replaceGit(url) ==
    IF IndexOf(url, ".git") = 0 THEN url
    ELSE RemoveAt(url, IndexOf(url, ".git"))

matchesRepo(project, repoUrl) ==
    \/ project.repoUrl = repoUrl
    \/ project.repoUrl = replaceGit(repoUrl)
    \/ replaceGit(project.repoUrl) = repoUrl

\* a bug: the ref of the payload is ignored
refBranchDefault(ref) == "main"

\* (payload.ref || 'refs/heads/main').replace('refs/heads/', '')
refBranch(ref) == IF ref = None THEN "main" ELSE ref

\* a bug: only the projects deployed with --webhook are looked at
findEnabledProject(projects, repoUrl) ==
    LET matching == {q \in projects : q.webhookEnabled
                                        /\ matchesRepo(q, repoUrl)} IN
    {q \in matching : \A r \in matching : r.updatedAt <= q.updatedAt}

\* projects.find over listAllProjects, which sorts by updatedAt descending
findProject(projects, repoUrl) ==
    LET matching == {q \in projects : matchesRepo(q, repoUrl)} IN
    {q \in matching : \A r \in matching : r.updatedAt <= q.updatedAt}

Answer(status, project) == [status |-> status, project |-> project]

\* the answers of the handler; status 0: the update is started for project
handleRequest(req, store) ==
    LET repoUrl == IF req.cloneUrl # NoName THEN req.cloneUrl
                   ELSE req.htmlUrl
        found == findProject(listAllProjects(store), repoUrl)
        verified == verifySignature(req, req.signature, req.secret)
    IN
    IF req.method = "OPTIONS" THEN {Answer(200, NoRecord)}
    ELSE IF req.method # "POST" THEN {Answer(404, NoRecord)}
    ELSE IF req.secret # 0 /\ req.signature = <<>>
    THEN {Answer(401, NoRecord)}
    ELSE IF req.secret # 0 /\ verified = "throws"
    THEN {Answer(500, NoRecord)}
    ELSE IF req.secret # 0 /\ verified = "false"
    THEN {Answer(401, NoRecord)}
    ELSE IF req.event # "push" THEN {Answer(200, NoRecord)}
    ELSE IF ~req.json THEN {Answer(500, NoRecord)}
    ELSE IF repoUrl = NoName THEN {Answer(400, NoRecord)}
    ELSE IF found = {} THEN {Answer(404, NoRecord)}
    ELSE {IF project.branch = refBranch(req.ref)
          THEN Answer(0, project)
          ELSE Answer(200, NoRecord) : project \in found}

HookRequest(p, requests) ==
    /\ Free(p)
    /\ ops < MaxOps
    /\ \E req \in requests :
         \E answer \in handleRequest(req, meta) :
           IF answer.status # 0
           THEN Step(p, [Idle EXCEPT !.pc = "done", !.op = "hook",
                                     !.req = req,
                                     !.status = answer.status])
           ELSE Step(p, [Idle EXCEPT !.pc = "u_load", !.op = "update",
                           !.child = TRUE, !.req = req,
                           !.name = answer.project.name,
                           !.given = refBranch(req.ref),
                           !.branch = optionBranch(refBranch(req.ref))])
    /\ ops' = ops + 1
    /\ UNCHANGED <<ws, meta, pm2, nginx, tmpConf, now>>

\* the child has exited: 200 on exit code 0, 500 on any other
HookRespond(p) ==
    LET l == loc[p] IN
    /\ l.pc = "h_respond"
    /\ Step(p, [l EXCEPT !.pc = "done",
                         !.status = IF l.result = "success" THEN 200
                                    ELSE 500])
    /\ UNCHANGED <<ws, meta, pm2, nginx, tmpConf, now, ops>>

(***************************************************************************)
(* The deployment host: a terminal running one CLI command at a time and   *)
(* the webhook listener, which handles one request at a time and spawns    *)
(* the update command as a child process.                                  *)
(***************************************************************************)
Init ==
    /\ ws = [n \in Names |-> NoDir]
    /\ meta = [n \in Names |-> NoRecord]
    /\ pm2 = {}
    /\ nginx = {}
    /\ tmpConf = {}
    /\ now = 1
    /\ ops = 0
    /\ loc = [p \in Procs |-> Idle]

Configs ==
    {DeployConfig(n, UrlPlain, "dev", "unknown", port) :
        n \in Names, port \in Ports \cup {NoPort}}

RepoContents == {BackendRepo, StaticRepo}

Pushes ==
    {Request("POST", 0, <<>>, "push", TRUE, UrlPlain, NoName, ref) :
        ref \in {"dev"}}

Pipeline(p) ==
    \/ DeployPort(p)
    \/ DeployFetch(p, RepoContents)
    \/ DeployAnalyze(p)
    \/ DeployInstall(p)
    \/ DeployBuild(p)
    \/ DeployRun(p)
    \/ DeployNginx(p)
    \/ DeployReload(p)
    \/ DeploySave(p)
    \/ UpdateLoad(p)
    \/ UpdateFetch(p, RepoContents)
    \/ UpdateRestart(p)
    \/ UpdateSave(p)
    \/ RemovePm2(p)
    \/ RemoveNginx(p)
    \/ RemoveWorkspace(p)
    \/ RemoveMetadata(p)
    \/ HookRespond(p)

Next ==
    \/ CliDeploy("cli", Configs)
    \/ CliUpdate("cli", Branches)
    \/ CliRemove("cli")
    \/ CliMigrate("cli")
    \/ HookRequest("hook", Pushes)
    \/ \E p \in Procs : Pipeline(p)

Spec == Init /\ [][Next]_vars

(***************************************************************************)
(* The webhook listener alone, over a host on which some of the projects   *)
(* were deployed as static frontends, handling one request.                *)
(***************************************************************************)
StoredUrls == {UrlPlain, UrlGit, UrlMid}

NoSlot == <<NoName, None, FALSE>>

\* the repository, the branch and the --webhook flag of a deploy
HookSlots == {NoSlot} \cup (StoredUrls \X Branches \X BOOLEAN)

\* the local variables of deploy when it has run for a static frontend
deployedLocal(n, slot) ==
    [Idle EXCEPT !.name = n, !.repoUrl = slot[1], !.branch = slot[2],
                 !.webhook = slot[3],
                 !.analysis = detectProjectType(StaticRepo, "unknown"),
                 !.content = StaticRepo, !.nginxConfigPath = n]

deployedDir(slot) ==
    [cloneRepo(NoDir, slot[1], slot[2], "ok", StaticRepo)
        EXCEPT !.installed = TRUE, !.built = TRUE]

deployedUnits(slots) ==
    {[name |-> n, shape |-> "static", port |-> NoPort] :
        n \in {m \in Names : slots[m] # NoSlot}}

SigTokens == {"sha256=", "0", "1"}

\* every header value of up to the digest's number of tokens
Signatures == UNION {[1..k -> SigTokens] : k \in 0..(HexLen + 1)}

SignedRequests ==
    {Request("POST", 1, signature, event, TRUE, cloneUrl, NoName, ref) :
        signature \in Signatures, event \in {"push", "ping"},
        cloneUrl \in {UrlPlain, UrlOther}, ref \in {None, "dev"}}

OpenRequests ==
    {Request(method, 0, <<>>, event, json, cloneUrl, htmlUrl, ref) :
        method \in {"POST", "OPTIONS", "GET"}, event \in {"push", "ping"},
        json \in BOOLEAN, cloneUrl \in GitHubUrls \cup {NoName},
        htmlUrl \in {NoName, UrlPlain},
        ref \in {None, "main", "dev", "refs/tags/v1"}}

\* the requests the listener can be sent, a finite set
HookRequests == SignedRequests \cup OpenRequests

HookInit ==
    \E slots \in [Names -> HookSlots] :
       /\ ws = [n \in Names |->
                  IF slots[n] = NoSlot THEN NoDir ELSE deployedDir(slots[n])]
       /\ meta = [n \in Names |->
                    IF slots[n] = NoSlot THEN NoRecord
                    ELSE deployRecord(deployedLocal(n, slots[n]), Len(n))]
       /\ pm2 = {}
       /\ nginx = deployedUnits(slots)
       /\ tmpConf = {}
       /\ now = 3
       /\ ops = MaxOps - 1
       /\ Cardinality(HookRequests) > 0
       /\ loc = [p \in Procs |-> Idle]

HookNext ==
    \/ HookRequest("hook", HookRequests)
    \/ UpdateLoad("hook")
    \/ UpdateFetch("hook", {StaticRepo})
    \/ UpdateRestart("hook")
    \/ UpdateSave("hook")
    \/ HookRespond("hook")

SpecHook == HookInit /\ [][HookNext]_vars

(***************************************************************************)
(* The listener under fair scheduling, with external tools that may never  *)
(* return: no execa call of the program is given a timeout.                *)
(***************************************************************************)
\* the command with local variables l is at a call of an external tool
awaitsTool(l) ==
    \/ l.pc = "d_port" /\ l.port # NoPort
    \/ l.pc \in {"d_fetch", "d_nginx", "d_reload", "u_fetch"}
    \/ l.pc = "d_install" /\ installs(l.analysis)
    \/ l.pc = "d_build" /\ builds(l.analysis, l.content)
    \/ l.pc = "d_run" /\ ~skipsSupervisor(l.analysis)
    \/ l.pc \in {"u_restart", "r_pm2"} /\ l.md.pm2ProcessName # NoName
    \/ l.pc = "r_nginx" /\ l.md.nginxConfigPath # NoName

\* the tool p awaits never exits: p waits for ever
CallHangs(p) ==
    /\ awaitsTool(loc[p])
    /\ Step(p, [loc[p] EXCEPT !.pc = "hung"])
    /\ UNCHANGED <<ws, meta, pm2, nginx, tmpConf, now, ops>>

\* the continuations the event loop runs once a call has returned
HookSteps(p) ==
    \/ UpdateLoad(p)
    \/ UpdateFetch(p, {StaticRepo})
    \/ UpdateRestart(p)
    \/ UpdateSave(p)
    \/ HookRespond(p)

HookLiveNext ==
    \/ HookRequest("hook", OpenRequests)
    \/ HookSteps("hook")
    \/ CallHangs("hook")

SpecHookLive ==
    HookInit /\ [][HookLiveNext]_vars /\ WF_vars(HookSteps("hook"))

(***************************************************************************)
(* One terminal alone: deploy, update and remove, one after the other,     *)
(* with either branch stored.                                              *)
(***************************************************************************)
CliConfigs ==
    {DeployConfig(n, UrlPlain, branch, "unknown", port) :
        n \in Names, branch \in Branches, port \in Ports \cup {NoPort}}

CliContents == {BackendRepo, StaticRepo, SplitRepo, EmptyRepo}

CliNext ==
    \/ CliDeploy("cli", CliConfigs)
    \/ CliUpdate("cli", Branches)
    \/ CliRemove("cli")
    \/ DeployPort("cli")
    \/ DeployFetch("cli", CliContents)
    \/ DeployAnalyze("cli")
    \/ DeployInstall("cli")
    \/ DeployBuild("cli")
    \/ DeployRun("cli")
    \/ DeployNginx("cli")
    \/ DeployReload("cli")
    \/ DeploySave("cli")
    \/ UpdateLoad("cli")
    \/ UpdateFetch("cli", CliContents)
    \/ UpdateRestart("cli")
    \/ UpdateSave("cli")
    \/ RemovePm2("cli")
    \/ RemoveNginx("cli")
    \/ RemoveWorkspace("cli")
    \/ RemoveMetadata("cli")

SpecCli == Init /\ [][CliNext]_vars


(***************************************************************************)
(* deploy alone, run twice from one terminal, over every kind of           *)
(* repository, with and without an explicit type and a port.               *)
(***************************************************************************)
DeployInit ==
    /\ ws = [n \in Names |-> NoDir]
    /\ meta = [n \in Names |-> NoRecord]
    /\ pm2 = {}
    /\ nginx = {}
    /\ tmpConf = {}
    /\ now = 1
    /\ ops = MaxOps - 2
    /\ loc = [p \in Procs |-> Idle]

\* every name, branch and port; every explicit type; a disallowed host;
\* the values of --env: none, a PORT of its own, a key of invalid format;
\* another repository deployed under the same name
DeployConfigs ==
    {DeployConfig(n, UrlPlain, branch, "unknown", port) :
        n \in Names, branch \in Branches, port \in Ports \cup {NoPort}}
    \cup
    {DeployConfig(<<"a">>, UrlPlain, "main", type, port) :
        type \in {"backend", "frontend", "monorepo"},
        port \in Ports \cup {NoPort}}
    \cup
    {[DeployConfig(<<"a">>, repoUrl, "main", "unknown", port)
         EXCEPT !.envVars = envVars] :
        repoUrl \in {UrlPlain, UrlBadHost}, port \in Ports \cup {NoPort},
        envVars \in {NoEnv,
                     [given |-> TRUE, vars |-> {<<PORT, 4000>>}],
                     [given |-> TRUE, vars |-> {<<<<"a", "-", "b">>, 1>>}]}}
    \cup
    {DeployConfig(<<"a">>, UrlOther, "main", "unknown", port) :
        port \in Ports \cup {NoPort}}

DeployNext ==
    \/ CliDeploy("cli", DeployConfigs)
    \/ DeployPort("cli")
    \/ DeployFetch("cli", Contents)
    \/ DeployAnalyze("cli")
    \/ DeployInstall("cli")
    \/ DeployBuild("cli")
    \/ DeployRun("cli")
    \/ DeployNginx("cli")
    \/ DeployReload("cli")
    \/ DeploySave("cli")

SpecDeploy == DeployInit /\ [][DeployNext]_vars


(***************************************************************************)
(* One terminal under fair scheduling, running deploy and then update,     *)
(* with external tools that may never return.                              *)
(***************************************************************************)
\* the continuations of deploy and update
CliSteps(p) ==
    \/ DeployPort(p)
    \/ DeployFetch(p, RepoContents)
    \/ DeployAnalyze(p)
    \/ DeployInstall(p)
    \/ DeployBuild(p)
    \/ DeployRun(p)
    \/ DeployNginx(p)
    \/ DeployReload(p)
    \/ DeploySave(p)
    \/ UpdateLoad(p)
    \/ UpdateFetch(p, RepoContents)
    \/ UpdateRestart(p)
    \/ UpdateSave(p)

CliLiveNext ==
    \/ CliDeploy("cli", CliConfigs)
    \/ CliUpdate("cli", Branches)
    \/ CliSteps("cli")
    \/ CallHangs("cli")

SpecCliLive ==
    DeployInit /\ [][CliLiveNext]_vars /\ WF_vars(CliSteps("cli"))

(***************************************************************************)
(* deploy on a host where the command can be killed (a signal, a crash of  *)
(* the host) at any point.  Killed while git clone is creating the         *)
(* workspace, it leaves nothing or a directory without a usable .git;      *)
(* killed later, it leaves what the finished stages wrote.                 *)
(***************************************************************************)
Interrupt(p) ==
    LET l == loc[p] IN
    /\ l.op = "deploy"
    /\ ~Free(p)
    /\ \E partial \in BOOLEAN :
         ws' = IF /\ partial
                  /\ l.pc = "d_fetch"
                  /\ validateRepoUrl(l.repoUrl)
                  /\ ~ws[l.name].exists
               THEN [ws EXCEPT ![l.name] = [NoDir EXCEPT !.exists = TRUE]]
               ELSE ws
    /\ Step(p, [l EXCEPT !.pc = "done", !.result = "interrupted"])
    /\ UNCHANGED <<meta, pm2, nginx, tmpConf, now, ops>>

CrashNext ==
    \/ CliDeploy("cli", Configs)
    \/ Interrupt("cli")
    \/ DeployPort("cli")
    \/ DeployFetch("cli", RepoContents)
    \/ DeployAnalyze("cli")
    \/ DeployInstall("cli")
    \/ DeployBuild("cli")
    \/ DeployRun("cli")
    \/ DeployNginx("cli")
    \/ DeployReload("cli")
    \/ DeploySave("cli")

SpecCrash == DeployInit /\ [][CrashNext]_vars

(***************************************************************************)
(* utils/portFinder.ts alone: findAvailablePort called with every start    *)
(* port and attempt budget, over every set of occupied ports.              *)
(***************************************************************************)
PortInit ==
    /\ ws = [n \in Names |-> NoDir]
    /\ meta = [n \in Names |-> NoRecord]
    /\ pm2 \in {{<<<<"a">>, port>> : port \in occupied} :
                  occupied \in SUBSET {start + i : start \in Ports,
                                                   i \in 0..(MaxAttempts + 1)}}
    /\ nginx = {}
    /\ tmpConf = {}
    /\ now = 1
    /\ ops = 0
    /\ loc = [p \in Procs |-> Idle]

FindPort(p) ==
    /\ Free(p)
    /\ \E startPort \in {start + i : start \in Ports, i \in 0..1},
          maxAttempts \in 1..MaxAttempts :
         Step(p, [Idle EXCEPT
                    !.pc = "done", !.op = "allocate", !.port = startPort,
                    !.maxAttempts = maxAttempts,
                    !.finalPort = findAvailablePort(startPort, maxAttempts,
                                                    Listening)])
    /\ UNCHANGED <<ws, meta, pm2, nginx, tmpConf, now, ops>>

SpecPort == PortInit /\ [][FindPort("cli")]_vars

(***************************************************************************)
(* utils/metadata.ts alone: updateMetadata called for any name with a      *)
(* partial record, on a host where some of the projects were deployed.     *)
(***************************************************************************)
StoreUpdate(p, partials) ==
    /\ Free(p)
    /\ ops < MaxOps
    /\ \E n \in Names, updates \in partials :
         LET l == [Idle EXCEPT !.pc = "done", !.op = "store_update",
                               !.name = n, !.trace = <<"persist">>]
         IN
         IF updateMetadataThrows(meta, n)
         THEN /\ Step(p, [l EXCEPT !.failed = "persist",
                                   !.result = "failure"])
              /\ UNCHANGED <<meta, ws>>
         ELSE /\ meta' = updateMetadata(meta, n, updates, now)
              /\ ws' = ensureDir(ws, n)
              /\ Step(p, [l EXCEPT !.result = "success"])
    /\ now' = now + 1
    /\ ops' = ops + 1
    /\ UNCHANGED <<pm2, nginx, tmpConf>>

SpecStore ==
    HookInit /\ [][StoreUpdate("cli", {[branch |-> "dev"],
                                       [port |-> 3001, type |-> "backend"],
                                       [createdAt |-> now + 1]})]_vars

(***************************************************************************)
(* The proxy-shaped config alone: the unit generateProxyConfig writes for   *)
(* a base path and a port, and how nginx routes a request path with it.    *)
(* A path is a sequence of tokens: "/" and names.                          *)
(***************************************************************************)
BasePaths == {<<"/">>, <<"/", "api">>, <<"/", "api", "/", "x">>}

\* the request paths: every path of up to MaxPath tokens that starts with /
Uris ==
    {uri \in UNION {[1..k -> {"/", "api", "x"}] : k \in 1..MaxPath} :
        uri[1] = "/"}

\* basePath || '/'
basePathOr(basePath) == IF basePath = NoName THEN <<"/">> ELSE basePath

\* the two locations of the generated unit
generateProxyConfig(port, basePath) ==
    [exact |-> basePath, redirect |-> basePath \o <<"/">>,
     prefix |-> basePath \o <<"/">>, port |-> port]

\* nginx matches locations against the path with adjacent slashes merged
RECURSIVE mergeSlashes(_)
mergeSlashes(uri) ==
    IF Len(uri) <= 1 THEN uri
    ELSE IF uri[1] = "/" /\ uri[2] = "/" THEN mergeSlashes(Tail(uri))
    ELSE <<uri[1]>> \o mergeSlashes(Tail(uri))

\* the exact location returns 301; the prefix location proxies with the
\* matched prefix replaced by the / of proxy_pass; no location: no route
route(config, uri) ==
    LET path == mergeSlashes(uri) IN
    IF path = config.exact
    THEN [kind |-> "redirect", port |-> NoPort, path |-> config.redirect]
    ELSE IF StartsWith(path, config.prefix)
    THEN [kind |-> "proxy", port |-> config.port,
          path |-> <<"/">> \o SubSeq(path, Len(config.prefix) + 1, Len(path))]
    ELSE NoRoute

ProxyRequest(p) ==
    /\ Free(p)
    /\ \E basePath \in BasePaths \cup {NoName}, port \in Ports, uri \in Uris :
         Step(p, [Idle EXCEPT
                    !.pc = "done", !.op = "route", !.finalPort = port,
                    !.basePath = basePathOr(basePath), !.uri = uri,
                    !.routed = route(generateProxyConfig(
                                        port, basePathOr(basePath)), uri)])
    /\ UNCHANGED <<ws, meta, pm2, nginx, tmpConf, now, ops>>

SpecProxy == Init /\ [][ProxyRequest("cli")]_vars

(***************************************************************************)
(* The host with an operator at the terminal who, between deploys, fixes   *)
(* records by hand (a store update with a partial record) while the        *)
(* listener's update of the same project is under way.                     *)
(***************************************************************************)
EditNext ==
    \/ CliDeploy("cli", Configs)
    \/ StoreUpdate("cli", {[pm2ProcessName |-> <<"a", "backend">>],
                           [port |-> 3001, type |-> "backend"]})
    \/ HookRequest("hook", Pushes)
    \/ \E p \in Procs :
          \/ DeployPort(p)
          \/ DeployFetch(p, RepoContents)
          \/ DeployAnalyze(p)
          \/ DeployInstall(p)
          \/ DeployBuild(p)
          \/ DeployRun(p)
          \/ DeployNginx(p)
          \/ DeployReload(p)
          \/ DeploySave(p)
          \/ UpdateLoad(p)
          \/ UpdateFetch(p, RepoContents)
          \/ UpdateRestart(p)
          \/ UpdateSave(p)
          \/ HookRespond(p)

SpecEdit == Init /\ [][EditNext]_vars

(***************************************************************************)
(* Properties                                                              *)
(***************************************************************************)
Range(s) == {s[i] : i \in 1..Len(s)}

Quiescent == \A p \in Procs : Free(p)

\* the step creates a record for n
RecordCreated(n) == meta[n].absent /\ ~meta'[n].absent

\* the step is the last statement of a deploy of n none of whose stages threw
DeployCompletes(n) ==
    \E p \in Procs :
       /\ loc[p].op = "deploy"
       /\ loc[p].name = n
       /\ loc[p].pc = "d_save"
       /\ loc[p].failed = "none"
       /\ loc'[p].result = "success"

\* C1: a record for N is created only by the last step of a deploy of N
\* whose earlier stages all succeeded; a failed deploy and every other
\* operation create none.
C1_RecordOnlyByCompletedDeploy ==
    [][\A n \in Names : RecordCreated(n) => DeployCompletes(n)]_vars

\* p has made its first mutation and has mutations left to make
InFlight(p) ==
    /\ loc[p].op \in {"deploy", "update"}
    /\ "fetch" \in Range(loc[p].trace)
    /\ loc[p].pc \notin {"idle", "done", "h_respond"}

\* C2: two pipeline invocations on the same project name are never both
\* between their first and their last mutation.
C2_NoInterleavingOnOneName ==
    \A p, q \in Procs :
       p # q /\ InFlight(p) /\ InFlight(q) => loc[p].name # loc[q].name

\* the stages of p's deploy started in the order of the pipeline
StartedInOrder(p) == InOrder(loc[p].trace, StageOrder)

\* a stage of p's deploy threw: it is the last one started and deploy is over
AbortedAtFailure(p) ==
    loc[p].failed # "none" =>
        /\ loc[p].pc = "done"
        /\ loc[p].result = "failure"
        /\ loc[p].trace # <<>>
        /\ Last(loc[p].trace) = loc[p].failed

C4_RecordIffWorkspaceAndEntry ==
    Quiescent =>
       \A n \in Names :
          ~meta[n].absent <=>
             /\ ws[n].exists
             /\ meta[n].pm2ProcessName # NoName =>
                   registered(pm2, meta[n].pm2ProcessName)

UpdateSteps == <<"fetch", "restart", "persist">>

\* the steps p's update has started are a fetch, then a restart when the
\* record names a supervisor entry, then the record write, the last two
\* only after a successful fetch
UpdateTraceOk(p) ==
    LET t == loc[p].trace IN
    /\ InOrder(t, UpdateSteps)
    /\ t # <<>> => t[1] = "fetch"
    /\ Len(t) > 1 => loc[p].failed # "fetch"
    /\ "restart" \in Range(t) <=>
          Len(t) > 1 /\ loc[p].md.pm2ProcessName # NoName
    /\ loc[p].result = "success" => Last(t) = "persist"

\* the step installs nothing, builds nothing and leaves the proxy alone
NoInstallBuildProxy ==
    /\ nginx' = nginx
    /\ tmpConf' = tmpConf
    /\ \A n \in Names :
          /\ ws'[n].installed = ws[n].installed
          /\ ws'[n].built = ws[n].built

\* C5: update starts a fetch, then a restart when the record names a
\* supervisor entry, then the record write, in that order and nothing
\* else; the restart and the write start only after a successful fetch,
\* and no step of it installs, builds or generates a proxy config.
C5_UpdateIsFetchRestartBump ==
    [][\A p \in Procs :
          loc[p].op = "update" /\ loc'[p].op = "update"
             /\ loc'[p] # loc[p] =>
                UpdateTraceOk(p)' /\ NoInstallBuildProxy]_vars

\* an update that fetched, restarted the entry and bumped the record
C5_Witness ==
    \E p \in Procs :
       /\ loc[p].op = "update"
       /\ loc[p].result = "success"
       /\ loc[p].trace = UpdateSteps

\* C6: an update given no branch fetches the stored branch and leaves the
\* record's branch as it was.
C6_UpdateKeepsStoredBranch ==
    \A p \in Procs :
       loc[p].op = "update" /\ loc[p].given = None =>
          /\ loc[p].fetched # None => loc[p].fetched = loc[p].md.branch
          /\ loc[p].result = "success" /\ ~meta[loc[p].name].absent =>
                meta[loc[p].name].branch = loc[p].md.branch

\* C7: while a remove has not yet deleted the record itself, the record
\* is loadable.
C7_RecordDeletedLast ==
    \A p \in Procs :
       loc[p].op = "remove"
          /\ loc[p].pc \in {"r_pm2", "r_nginx", "r_ws", "r_meta"} =>
             ~loadMetadata(meta, loc[p].name).absent

\* C8: when a confirmed remove completes, no record of the project exists,
\* whichever of its teardown steps failed.
C8_RemoveLeavesNoRecord ==
    [][\A p \in Procs :
          loc[p].op = "remove" /\ loc[p].pc = "r_meta"
             /\ loc'[p].pc = "done" =>
                loadMetadata(meta', loc[p].name).absent]_vars

\* a remove completed after the supervisor and the workspace teardown failed
C8_Witness ==
    \E p \in Procs :
       /\ loc[p].op = "remove"
       /\ loc[p].result = "success"
       /\ {"pm2", "workspace"} \subseteq loc[p].warns
       /\ meta[loc[p].name].absent

\* the request p handled was answered with status and started no update
Rejected(p, status) == loc[p].op = "hook" /\ loc[p].status = status

\* C9: with a secret configured, a request whose signature header is not
\* the digest of its body is answered 401 and starts no update.
C9_BadSignatureIs401 ==
    \A p \in Procs :
       /\ loc[p].req.method = "POST"
       /\ loc[p].req.secret # 0
       /\ loc[p].req.signature # digestOf(loc[p].req, loc[p].req.secret)
       => Rejected(p, 401)

\* the URL without a trailing '.git'
stripGit(url) ==
    IF url # <<>> /\ Last(url) = ".git" THEN Front(url) ELSE url

\* C10: a push for a repository that is no stored project's, with or
\* without a trailing '.git', is answered 404 and starts no update.
C10_UnknownRepoIs404 ==
    \A p \in Procs :
       /\ loc[p].req.method = "POST"
       /\ loc[p].req.secret = 0
       /\ loc[p].req.event = "push"
       /\ loc[p].req.json
       /\ loc[p].req.cloneUrl # NoName
       /\ \A n \in Names :
             meta[n].absent
                \/ stripGit(meta[n].repoUrl) # stripGit(loc[p].req.cloneUrl)
       => Rejected(p, 404)

\* the step in which p takes a request up
Arrives(p) ==
    /\ ops' = ops + 1
    /\ loc'[p] # loc[p]
    /\ loc'[p].req.method # None

\* a POST that passes the signature check
Authentic(req) ==
    /\ req.method = "POST"
    /\ req.secret = 0 \/ req.signature = digestOf(req, req.secret)

\* the repository and the branch a push names
pushedUrl(req) == IF req.cloneUrl # NoName THEN req.cloneUrl ELSE req.htmlUrl

pushedBranch(req) == IF req.ref = None THEN "main" ELSE req.ref

\* a well-formed push
WellFormedPush(req) ==
    /\ Authentic(req)
    /\ req.event = "push"
    /\ req.json
    /\ pushedUrl(req) # NoName

\* the projects the listener matches the push with
Matched(req) == findProject(listAllProjects(meta), pushedUrl(req))

\* the push names a branch other than the matched project's
BranchMismatch(req) ==
    /\ WellFormedPush(req)
    /\ Matched(req) # {}
    /\ \A project \in Matched(req) : project.branch # pushedBranch(req)

\* p answers with status at once; nothing on the host changes
AnswersOnly(p, status) ==
    /\ loc'[p].op = "hook"
    /\ loc'[p].pc = "done"
    /\ loc'[p].status = status
    /\ UNCHANGED <<ws, meta, pm2, nginx>>

\* C11: an event other than push, and a push for another branch than the
\* matched project's, are answered 200; no update is started, no entry is
\* restarted and no record changes.
C11_IgnoredEventsAre200 ==
    [][\A p \in Procs :
          /\ Arrives(p)
          /\ \/ Authentic(loc'[p].req) /\ loc'[p].req.event # "push"
             \/ BranchMismatch(loc'[p].req)
          => AnswersOnly(p, 200)]_vars

\* a push for branch dev of a project stored with branch main was answered
C11_Witness ==
    \E p \in Procs : \E n \in Names :
       /\ Rejected(p, 200)
       /\ WellFormedPush(loc[p].req)
       /\ ~meta[n].absent
       /\ meta[n].repoUrl = loc[p].req.cloneUrl
       /\ meta[n].branch = "main"
       /\ loc[p].req.ref = "dev"

\* the push names the branch of the matched project
BranchMatch(req) ==
    /\ WellFormedPush(req)
    /\ Matched(req) # {}
    /\ \A project \in Matched(req) : project.branch = pushedBranch(req)

\* p spawns `update --name <matched project> --branch <pushed branch>`
StartsUpdate(p) ==
    /\ loc'[p].op = "update"
    /\ loc'[p].child
    /\ loc'[p].pc = "u_load"
    /\ loc'[p].name \in {project.name : project \in Matched(loc'[p].req)}
    /\ loc'[p].given = pushedBranch(loc'[p].req)

\* the child p spawned stays the one update of that project and branch
SameUpdate(p) ==
    /\ loc'[p].child
    /\ loc'[p].op = "update"
    /\ loc'[p].req = loc[p].req
    /\ loc'[p].name = loc[p].name
    /\ loc'[p].given = loc[p].given
    /\ loc'[p].fetched \in {None, loc[p].given}
    /\ Len(loc'[p].trace) <= Len(UpdateSteps)

\* the request is answered 200 when every step of the update succeeded and
\* 500 when the update failed
Responded(p) ==
    loc[p].child /\ loc[p].pc = "done" =>
       /\ loc[p].status \in {200, 500}
       /\ loc[p].status = 200 <=>
             /\ loc[p].failed = "none"
             /\ loc[p].trace # <<>>
             /\ Last(loc[p].trace) = "persist"

\* C12: for a push naming the repository and the branch of the matched
\* project the listener starts one update, of that project on that
\* branch, and answers 200 if it succeeded and 500 if it failed.
C12_MatchingPushUpdatesOnce ==
    [][\A p \in Procs :
          /\ Arrives(p) /\ BranchMatch(loc'[p].req) => StartsUpdate(p)
          /\ loc[p].child /\ loc'[p] # loc[p] /\ ~Arrives(p) => SameUpdate(p)
          /\ Responded(p)']_vars

\* a push was answered 200 after its update fetched and wrote the record
C12_Witness ==
    \E p \in Procs :
       /\ loc[p].child
       /\ loc[p].pc = "done"
       /\ loc[p].status = 200
       /\ loc[p].trace = <<"fetch", "persist">>
       /\ meta[loc[p].name].updatedAt = now - 1

\* C13: a push whose body is not JSON, or names no repository URL, is
\* answered 400 and starts no update.
C13_MalformedPushIs400 ==
    \A p \in Procs :
       /\ Authentic(loc[p].req)
       /\ loc[p].req.event = "push"
       /\ ~loc[p].req.json \/ pushedUrl(loc[p].req) = NoName
       => Rejected(p, 400)

\* C14: every request the listener takes up is eventually answered, also
\* when the update it started never terminates.
C14_EveryRequestAnswered ==
    \A p \in Procs :
       (loc[p].req.method # None) ~> (loc[p].status # 0)

\* the analyzer finds a root manifest with neither backend nor frontend
\* dependencies, and no --type was given
ClassifiedUnknown(p) ==
    LET analysis ==
          detectProjectType(ws[loc[p].name].content, loc[p].userType) IN
    /\ loc[p].userType = "unknown"
    /\ ~analysis.throws
    /\ analysis.type = "unknown"

LaterStages == {"install", "build", "supervisor", "proxy", "reload", "persist"}

\* C15: when the analyzer classifies the workspace as unknown and no type
\* was given, the analyze stage ends the deploy with a failure: no later
\* stage runs, no supervisor entry, proxy config or record is written.
C15_UnknownTypeAborts ==
    [][\A p \in Procs :
          /\ loc[p].pc = "d_analyze"
          /\ ClassifiedUnknown(p)
          /\ loc'[p] # loc[p]
          => /\ loc'[p].pc = "done"
             /\ loc'[p].result = "failure"
             /\ loc'[p].failed = "analyze"
             /\ Range(loc'[p].trace) \cap LaterStages = {}
             /\ UNCHANGED <<ws, meta, pm2, nginx, tmpConf>>]_vars

\* a deploy of a repository without known dependencies failed at analyze
C15_Witness ==
    \E p \in Procs :
       /\ loc[p].op = "deploy"
       /\ loc[p].failed = "analyze"
       /\ ClassifiedUnknown(p)
       /\ Last(loc[p].trace) = "analyze"
       /\ meta[loc[p].name].absent

\* the classifications that need a running process
NeedsProcess(analysis) ==
    \/ analysis.type = "backend"
    \/ analysis.type = "frontend" /\ analysis.isSSR
    \/ analysis.type = "monorepo" /\ analysis.backendPath # None

\* the deploy of p has come to the supervisor stage and left it
PastSupervisor(p) ==
    /\ loc[p].op = "deploy"
    /\ \/ loc[p].pc \in {"d_nginx", "d_reload", "d_save"}
       \/ /\ loc[p].pc = "done"
          /\ loc[p].failed \notin {"fetch", "analyze", "install", "build"}

\* C16: the supervisor stage of deploy runs exactly for a backend, a
\* server-rendered frontend and a multi-package project with a backend
\* sub-package; otherwise it is skipped and the record names no entry.
C16_SupervisorExactlyWhenNeeded ==
    \A p \in Procs :
       PastSupervisor(p) =>
          /\ "supervisor" \in Range(loc[p].trace)
                <=> NeedsProcess(loc[p].analysis)
          /\ ~NeedsProcess(loc[p].analysis)
                => /\ loc[p].pm2ProcessName = NoName
                   /\ loc[p].result = "success"
                        => meta[loc[p].name].pm2ProcessName = NoName

\* the generator is about to be called for a proxy or combined shape
\* although no port was resolved
PortMissing(p) ==
    /\ loc[p].pc = "d_nginx"
    /\ configShape(loc[p].analysis.type, loc[p].analysis)
          \in {"proxy", "combined"}
    /\ loc[p].finalPort = NoPort

\* C17: a proxy or combined shape without a resolved port is rejected with
\* an error before anything is written: the temporary files and the
\* installed config units stay as they were.
C17_MissingPortWritesNothing ==
    [][\A p \in Procs :
          PortMissing(p) /\ loc'[p] # loc[p]
          => /\ loc'[p].failed = "proxy"
             /\ loc'[p].result = "failure"
             /\ loc'[p].nginxConfigPath = NoName
             /\ UNCHANGED <<nginx, tmpConf>>]_vars

\* a re-deploy without a port failed at the proxy stage and the unit of the
\* earlier deploy is still installed
C17_Witness ==
    \E p \in Procs :
       /\ loc[p].op = "deploy"
       /\ loc[p].failed = "proxy"
       /\ loc[p].finalPort = NoPort
       /\ configShape(loc[p].analysis.type, loc[p].analysis)
             \in {"proxy", "combined"}
       /\ loc[p].name \notin tmpConf
       /\ \E unit \in nginx : unit.name = loc[p].name /\ unit.port # NoPort

\* the config unit the proxy stage of p's deploy wrote is installed
ConfigInPlace(p) ==
    [name |-> loc[p].name,
     shape |-> configShape(loc[p].analysis.type, loc[p].analysis),
     port |-> loc[p].finalPort] \in nginx

StageFails(p) ==
    /\ loc[p].op = "deploy"
    /\ loc[p].failed = "none"
    /\ loc'[p].failed # "none"

\* what the stages before the failing one did is still there
EarlierEffectsStay(p) ==
    LET dir == ws[loc[p].name]
        after == ws'[loc[p].name]
    IN
    /\ dir.exists => after.exists
    /\ after.git = dir.git
    /\ after.repo = dir.repo
    /\ after.content = dir.content
    /\ dir.installed => after.installed
    /\ dir.built => after.built
    /\ loc[p].pm2ProcessName # NoName
          => \E e \in pm2 : e[1] = loc[p].pm2ProcessName /\ e \in pm2'
    /\ loc[p].nginxConfigPath # NoName => ConfigInPlace(p)'
    /\ meta' = meta

\* C19: when a stage of deploy fails, the effects of the stages before it
\* stay: the workspace, its installed dependencies and build output and
\* the supervisor entry already registered; nothing is torn down.
C19_FailureLeavesEarlierEffects ==
    [][\A p \in Procs : StageFails(p) => EarlierEffectsStay(p)]_vars

\* the proxy stage failed after the workspace was cloned, installed and
\* built and the process was registered; all of it is still there
C19_Witness ==
    \E p \in Procs :
       /\ loc[p].op = "deploy"
       /\ loc[p].failed = "proxy"
       /\ ws[loc[p].name].exists
       /\ ws[loc[p].name].installed
       /\ ws[loc[p].name].built
       /\ loc[p].pm2ProcessName # NoName
       /\ <<loc[p].pm2ProcessName, loc[p].finalPort>> \in pm2

\* p's deploy is at its fetch stage and the workspace of the name exists
Redeploys(p) ==
    /\ loc[p].pc = "d_fetch"
    /\ ws[loc[p].name].exists

\* a fetch into the workspace as it is succeeds whenever git does
FetchCanSucceed(p) ==
    \E out \in GitOutcomes :
       ~cloneRepoThrows(ws[loc[p].name], loc[p].repoUrl, loc[p].branch, out)

\* C20: a deploy for a name whose workspace exists does not fail because
\* of the workspace and does not clone again: the fetch stage pulls the
\* requested branch into the workspace in place, and the workspace is
\* never deleted (deploy does not set the forced-clean flag).
C20_RedeployPullsInPlace ==
    [][\A p \in Procs :
          Redeploys(p) /\ loc'[p] # loc[p] =>
             /\ ws'[loc[p].name].exists
             /\ ws'[loc[p].name].repo = ws[loc[p].name].repo
             /\ loc'[p].failed = "none"
                   => ws'[loc[p].name].branch = loc[p].branch
             /\ loc'[p].failed = "fetch" /\ validateRepoUrl(loc[p].repoUrl)
                   => FetchCanSucceed(p)]_vars

\* p's deploy is about to fetch into what an interrupted deploy left: a
\* workspace directory without a record
ResumesPartial(p) ==
    /\ loc[p].op = "deploy"
    /\ loc[p].pc = "d_fetch"
    /\ ws[loc[p].name].exists
    /\ meta[loc[p].name].absent
    /\ validateRepoUrl(loc[p].repoUrl)

\* C21: the deploy that follows an interrupted one for the same name gets
\* through its fetch stage whenever the repository can be reached, with or
\* without a .git directory in the workspace that was left.
C21_ResumesAfterInterrupt ==
    \A p \in Procs : ResumesPartial(p) => FetchCanSucceed(p)

\* the deploy p runs was given a disallowed URL or a variable whose key
\* has an invalid format
InvalidInput(p) ==
    /\ loc[p].op = "deploy"
    /\ \/ ~validateRepoUrl(loc[p].repoUrl)
       \/ \E pair \in loc[p].envVars.vars : ~validateEnvKey(pair[1])

\* C22: a deploy with an invalid source URL or an environment key of
\* invalid format is rejected before any side effect: it never changes a
\* workspace, a file, a supervisor entry, a proxy config or a record, and
\* it does not succeed.
C22_InvalidInputNoSideEffect ==
    [][\A p \in Procs :
          InvalidInput(p) /\ loc'[p] # loc[p] /\ loc'[p].op = "deploy"
          => /\ UNCHANGED <<ws, meta, pm2, nginx, tmpConf>>
             /\ loc'[p].result # "success"]_vars

\* p's deploy of a backend with a preferred port that probed free succeeded
BackendDeployed(p) ==
    /\ loc[p].op = "deploy"
    /\ loc[p].result = "success"
    /\ loc[p].analysis.type = "backend"
    /\ loc[p].port # NoPort
    /\ loc[p].finalPort = loc[p].port

\* C23: a successful deploy of a backend with a free preferred port P, with
\* any explicit environment variables, yields a record with port P, a
\* supervisor entry whose PORT is P and a proxy config forwarding to P.
C23_OnePortEverywhere ==
    \A p \in Procs :
       BackendDeployed(p) =>
          /\ meta[loc[p].name].port = loc[p].port
          /\ <<loc[p].pm2ProcessName, loc[p].port>> \in pm2
          /\ [name |-> loc[p].name, shape |-> "proxy", port |-> loc[p].port]
                \in nginx

\* findAvailablePort was called by p
Allocated(p) == loc[p].op = "allocate"

\* the ports start..start+k
Run(start, k) == {start + i : i \in 0..k}

\* C24: allocation scans forward: when the ports P..P+k are occupied and
\* P+k+1 is free, with k+1 <= maxAttempts, allocate(P, maxAttempts)
\* returns P+k+1.
C24_ScansForward ==
    \A p \in Procs : \A k \in 0..MaxAttempts :
       /\ Allocated(p)
       /\ k + 1 <= loc[p].maxAttempts
       /\ Run(loc[p].port, k) \subseteq Listening
       /\ loc[p].port + k + 1 \notin Listening
       => loc[p].finalPort = loc[p].port + k + 1

\* C25: allocation never fails: a free preferred port is returned as it
\* is, and when every probed port is occupied the preferred port is
\* returned.
C25_FreeOrPreferred ==
    \A p \in Procs :
       Allocated(p) =>
          /\ loc[p].port \notin Listening => loc[p].finalPort = loc[p].port
          /\ Run(loc[p].port, loc[p].maxAttempts - 1) \subseteq Listening
                => loc[p].finalPort = loc[p].port

\* every one of three probed ports was occupied and the preferred port
\* came back
C25_Witness ==
    \E p \in Procs :
       /\ Allocated(p)
       /\ loc[p].maxAttempts = MaxAttempts
       /\ Run(loc[p].port, loc[p].maxAttempts - 1) \subseteq Listening
       /\ loc[p].finalPort = loc[p].port

\* C26: no two existing records hold the same port.
C26_RecordPortsDistinct ==
    \A n1, n2 \in Names :
       /\ n1 # n2
       /\ ~meta[n1].absent
       /\ ~meta[n2].absent
       /\ meta[n1].port # NoPort
       => meta[n1].port # meta[n2].port

\* C27: the store's update on a name without a record fails and writes
\* nothing: no record file and no directory is created for the name.
C27_UpdateOfMissingFails ==
    [][\A p \in Procs :
          /\ loc'[p] # loc[p]
          /\ loc'[p].op = "store_update"
          /\ meta[loc'[p].name].absent
          => /\ loc'[p].result = "failure"
             /\ UNCHANGED <<meta, ws>>]_vars

\* an update of a name that has neither record nor directory failed
C27_Witness ==
    \E p \in Procs :
       /\ loc[p].op = "store_update"
       /\ loc[p].result = "failure"
       /\ meta[loc[p].name].absent
       /\ ~ws[loc[p].name].exists

\* C28: every stored record has updatedAt >= createdAt.
C28_UpdatedNotBeforeCreated ==
    \A n \in Names : ~meta[n].absent => meta[n].updatedAt >= meta[n].createdAt

\* the analyzer threw for the workspace of p's deploy
AnalyzeThrew(p) ==
    /\ loc[p].op = "deploy"
    /\ loc[p].failed = "analyze"
    /\ detectProjectType(ws[loc[p].name].content, loc[p].userType).throws

\* no manifest at the root and none in a searched sub-path
NoManifest(c) == ~c.root /\ ~c.fe /\ ~c.be

\* C29: the analyzer fails only when no manifest is found at the root or
\* in a searched sub-path and no explicit type was supplied; with an
\* explicit type it returns a result.
C29_AnalyzeFailsOnlyWithoutTypeAndManifest ==
    \A p \in Procs :
       AnalyzeThrew(p) =>
          /\ NoManifest(ws[loc[p].name].content)
          /\ loc[p].userType = "unknown"

\* the analyzer returned for a workspace with a root manifest and an
\* explicit type
AnalyzedWithType(p) ==
    /\ loc[p].op = "deploy"
    /\ loc[p].userType # "unknown"
    /\ "analyze" \in Range(loc[p].trace)
    /\ loc[p].failed # "analyze"
    /\ loc[p].content.root

\* C30: with an explicit type and a root manifest the classification is
\* the supplied type for every manifest content, and the build and start
\* scripts are those of the workspace.
C30_ExplicitTypeIsClassification ==
    \A p \in Procs :
       AnalyzedWithType(p) =>
          /\ loc[p].analysis.type = loc[p].userType
          /\ loc[p].analysis.hasBuildScript = loc[p].content.build
          /\ loc[p].analysis.hasStartScript = loc[p].content.start

\* the shape the proxy-config generator is to produce for an analysis
ShapeFor(analysis) ==
    IF analysis.type = "frontend" /\ ~analysis.isSSR THEN "static"
    ELSE IF analysis.type = "backend"
            \/ (analysis.type = "frontend" /\ analysis.isSSR) THEN "proxy"
    ELSE IF /\ analysis.type = "monorepo"
            /\ analysis.frontendPath # None
            /\ analysis.backendPath # None THEN "combined"
    ELSE "none"

\* C31: the config unit written by the proxy stage is static exactly for a
\* frontend without server rendering, proxy exactly for a backend or a
\* server-rendered frontend, and combined exactly for a multi-package
\* project with both a frontend and a backend sub-package.
C31_ShapeFollowsProjectKind ==
    \A p \in Procs :
       loc[p].op = "deploy" /\ loc[p].nginxConfigPath # NoName =>
          \E unit \in nginx :
             /\ unit.name = loc[p].name
             /\ unit.shape = ShapeFor(loc[p].analysis)

\* the request path is the base path followed by / and anything
UnderBase(basePath, uri) ==
    IF Last(basePath) = "/" THEN StartsWith(uri, basePath)
    ELSE StartsWith(uri, basePath \o <<"/">>)

\* the request path with the base-path prefix removed
Stripped(basePath, uri) ==
    IF Last(basePath) = "/"
    THEN <<"/">> \o SubSeq(uri, Len(basePath) + 1, Len(uri))
    ELSE SubSeq(uri, Len(basePath) + 1, Len(uri))

\* C32: for every base path, the default / included, a request path under
\* the base path is forwarded to localhost:port with the base-path prefix
\* removed, and a request for exactly the base path is redirected to the
\* base path followed by a single slash.
C32_ProxyForwardsUnderBase ==
    \A p \in Procs :
       LET l == loc[p] IN
       l.op = "route" /\ l.uri = mergeSlashes(l.uri) =>
          /\ l.uri = l.basePath =>
                /\ l.routed.kind = "redirect"
                /\ l.routed.path = l.basePath \o <<"/">>
          /\ l.uri # l.basePath /\ UnderBase(l.basePath, l.uri) =>
                /\ l.routed.kind = "proxy"
                /\ l.routed.port = l.finalPort
                /\ l.routed.path = Stripped(l.basePath, l.uri)

\* the supervisor entries that the records of the projects other than n name
EntriesOfOthers(n) ==
    {e \in pm2 : \E m \in Names \ {n} :
                    /\ ~meta[m].absent
                    /\ meta[m].pm2ProcessName = e[1]}

\* C33: the entry names of two different (project, sub-package) pairs are
\* different, so the supervisor stage of one project's deploy never deletes
\* or replaces an entry that belongs to another project.
C33_EntriesOfOthersStay ==
    [][\A p \in Procs :
          loc[p].pc = "d_run" => EntriesOfOthers(loc[p].name) \subseteq pm2']_vars

\* C34: every deploy and update invocation eventually ends with a success
\* or a failure, also when an external tool it calls never returns.
C34_EveryInvocationEnds ==
    \A p \in Procs :
       (loc[p].op \in {"deploy", "update"}) ~> (loc[p].result # "none")

\* C35: update goes on after its fetch with the record as it is after the
\* fetch: the entry it restarts and the fields it writes back come from
\* that record, so an edit of the record made during the fetch is neither
\* ignored nor overwritten.
C35_RecordRereadAfterFetch ==
    [][\A p \in Procs :
          /\ loc[p].op = "update"
          /\ loc[p].pc = "u_fetch"
          /\ loc'[p].pc = "u_restart"
          => loc'[p].md = meta'[loc[p].name]]_vars

\* some stored record has the repository URL and the branch the push names
StoredOnBranch(req) ==
    \E n \in Names :
       /\ ~meta[n].absent
       /\ meta[n].repoUrl = pushedUrl(req)
       /\ meta[n].branch = pushedBranch(req)

\* C36: a push for a repository and a branch starts an update whenever some
\* stored record has that repository URL and that branch, also when other
\* records with the same URL and another branch exist.
C36_PushReachesItsBranch ==
    [][\A p \in Procs :
          /\ Arrives(p)
          /\ WellFormedPush(loc'[p].req)
          /\ StoredOnBranch(loc'[p].req)
          => /\ loc'[p].op = "update"
             /\ loc'[p].child
             /\ meta[loc'[p].name].branch = pushedBranch(loc'[p].req)]_vars

\* the step in which p's deploy returns
DeployReturns(p) ==
    /\ loc[p].op = "deploy"
    /\ loc[p].pc # "done"
    /\ loc'[p].pc = "done"

\* C37: deploy always returns a result; the result is a success exactly
\* when this invocation wrote the project's record; a success carries the
\* port, the supervisor entry and the proxy-config path of the written
\* record, a failure carries an error and no port.
C37_ResultMatchesRecord ==
    [][\A p \in Procs :
          /\ loc[p].op = "deploy" /\ loc'[p].pc # "done" => meta' = meta
          /\ DeployReturns(p) =>
                LET returned == loc'[p].returned
                    record == meta'[loc[p].name]
                IN
                /\ returned.success \/ returned.error
                /\ returned.success <=> meta' # meta
                /\ returned.success =>
                      /\ ~returned.error
                      /\ ~record.absent
                      /\ record.port = returned.port
                      /\ record.pm2ProcessName = returned.pm2ProcessName
                      /\ record.nginxConfigPath = returned.nginxConfigPath
                /\ ~returned.success =>
                      /\ returned.port = NoPort
                      /\ returned.pm2ProcessName = NoName]_vars

\* a deploy returned a success with another port than the preferred one,
\* the port of the record it wrote
C37_Witness ==
    \E p \in Procs :
       /\ loc[p].op = "deploy"
       /\ loc[p].pc = "done"
       /\ loc[p].returned.success
       /\ loc[p].returned.port # loc[p].port
       /\ loc[p].returned.port # NoPort
       /\ meta[loc[p].name].port = loc[p].returned.port

\* C38: the source URL stored in a project's record is the URL of the
\* repository cloned in the project's workspace, also after a deploy of
\* another repository under the name of an existing workspace.
C38_RecordUrlIsWorkspaceOrigin ==
    \A n \in Names :
       ~meta[n].absent =>
          /\ ws[n].git
          /\ ws[n].repo = meta[n].repoUrl

\* C39: after any sequence of deploys and updates, failed ones included,
\* the branch stored in a project's record is the branch checked out in
\* the project's workspace.
C39_RecordBranchIsCheckedOut ==
    \A n \in Names :
       ~meta[n].absent =>
          /\ ws[n].git
          /\ ws[n].branch = meta[n].branch

\* an update fetched the branch of the record and then failed at the
\* restart; the record and the workspace are on that branch
C39_Witness ==
    \E p \in Procs :
       /\ loc[p].op = "update"
       /\ loc[p].failed = "restart"
       /\ loc[p].fetched # None
       /\ ~meta[loc[p].name].absent
       /\ ws[loc[p].name].branch = loc[p].fetched
       /\ meta[loc[p].name].branch = loc[p].fetched

\* the status answered at once, or 0 and the project whose update is
\* started, for every answer the handler can give
Outcomes(req, store) ==
    {<<answer.status, answer.project.name>> :
        answer \in handleRequest(req, store)}

\* the store with the webhook-auto-deploy flag of n's record inverted
FlagInverted(store, n) ==
    [store EXCEPT ![n].webhookEnabled = ~store[n].webhookEnabled]

====
